---- MODULE Spec2Model ----
(***************************************************************************)
(* A model of the hybrid CDC pipeline: the OffsetManager (src/cdc/offset), *)
(* the commit-log tailer (src/cdc/reader, src/cdc/parser), the sinks       *)
(* (src/sinks) and the orchestrator CDCPipeline (src/main).                *)
(*                                                                         *)
(* The specifications share the variables:                                 *)
(*   SpecOffset  the OffsetManager driven through its public methods, and  *)
(*               the resume computation at the head of run_continuous;     *)
(*   SpecReader  the CommitLogReader polling segments that grow;           *)
(*   Spec        CDCPipeline.run_continuous with its sinks;                *)
(*   SpecLive    Spec with the fairness of the asyncio event loop;         *)
(*   SpecFault   the tailer when opening a segment can fail;               *)
(*   SpecRepoll  the tailer when a read fails part-way through a segment;  *)
(*   SpecCoords  run_continuous over what the tailer yields from disk;     *)
(*   SpecConnect Spec with a connect() that fails in initialize_sinks;     *)
(*   SpecBackoff, SpecMasking                                              *)
(*               calls of calculate_backoff and of apply_masking;          *)
(*   SpecEmpty   Spec with process_batch called on an empty list;          *)
(*   SpecDLQ     DLQWriter.write_event over days and destinations;         *)
(*   SpecRetry   retry_with_policy over the outcomes of an operation;      *)
(*   SpecClassify, SpecCompare, SpecValidate                               *)
(*               calls of the schema classifier and validator;             *)
(*   SpecSchema  Spec while schema versions are registered;                *)
(*   SpecSink    commit_offset / write_offset called twice with one offset;*)
(*   SpecTable   PostgresSink.write_batch called twice on table contents.  *)
(***************************************************************************)
EXTENDS Integers, Sequences, FiniteSets, TLC

\* Python None (a record, so that it compares with the records it stands in for)
None == [none |-> TRUE]

\* ------------------------------------------------------------------------
\* Bounds of the model
\* ------------------------------------------------------------------------
MaxOffsetWrites == 2
MaxTs == 2
MaxAppends == 3          \* entries written to the commit log
MaxEvents == 4           \* events the tailer hands to run_continuous
MaxBatchLen == 2         \* events in a batch passed to a sink directly
MaxAttempts == 3         \* policy.max_attempts
MaxDays == 2             \* dates on which DLQ records are written
MaxDLQWrites == 3        \* calls of DLQWriter.write_event
MaxSinkCalls == 2        \* calls a caller repeats on a sink or on the OffsetManager
BatchSize == 2           \* config.pipeline.batch_size

\* ------------------------------------------------------------------------
\* Program constants
\* ------------------------------------------------------------------------
PrefixLen == 4                  \* reader.py: f.read(4)
MaxEntrySize == 100000000       \* reader.py: entry_size > 100_000_000
MinEntryLen == 10               \* parser.py: len(commitlog_data) < 10

\* ------------------------------------------------------------------------
\* Program values
\* ------------------------------------------------------------------------
\* models/offset.py Destination, in the order initialize_sinks inserts them
DestOrder == <<"POSTGRES", "CLICKHOUSE", "TIMESCALEDB">>
Destinations == {DestOrder[i] : i \in 1..Len(DestOrder)}
Partitions == {0, 1}
CommitlogFiles == {1, 2}         \* segment names, numbered in lexicographic order
OffsetPositions == {0, 1}
TableName == "users"
Keyspace == "ecommerce"

VARIABLES
    \* OffsetManager
    in_memory_offsets,  \* the dict, as the sequence of its items in insertion order
    om_last,            \* the last write_offset call: its argument and outcome
    om_calls,           \* number of write_offset calls made
    \* CDCPipeline: startup
    pc,                 \* "init" | "running" | "stopped"
    sinks,              \* self.sinks: the enabled destinations (iterated in DestOrder)
    resume,             \* (last_file, last_position) handed to poll_for_new_events
    \* the cdc_raw directory
    segments,           \* the CommitLog-*.log files in name order, each its bytes
    inflight,           \* bytes of the entry being appended that are not yet on disk
    appends,            \* entries started so far
    \* CommitLogReader and the generator poll_for_new_events
    processed_files,    \* self._processed_files
    last_file,          \* poll_for_new_events: last_file (0 is None)
    last_position,      \* poll_for_new_events: last_position
    yielded,            \* every (event, file, position) yielded so far
    unread_at_poll,     \* complete entries on disk the last poll cycle left unyielded
    \* CDCPipeline.run_continuous and process_batch
    now_aware,          \* whether the datetime.now() of __post_init__ is timezone aware
    next_event,         \* number of the next event poll_for_new_events yields
    batch,              \* run_continuous: batch
    shutdown_flag,      \* self._shutdown_flag
    final,              \* the batch in process_batch is the one of the shutdown branch
    task,               \* per destination, the _write_to_sink coroutine of asyncio.gather
    \* the destinations
    sink,               \* per destination: open transaction, durable rows, cdc_offsets row
    dlq,                \* per destination: the events in its dead letter queue
    \* history
    submitted,          \* the batches handed to process_batch, as event ids
    outcomes,           \* per returned process_batch call, the result of each task
    committed,          \* per destination, the batches whose commit_offset returned
    offset_before,      \* per destination, its cdc_offsets row when the batch was submitted
    \* SchemaValidator
    schemas,            \* self._schemas["ecommerce.users"], None when not registered
    schema_incompatible, \* is_schema_compatible(previous, active) is False
    \* the sinks called directly
    table,              \* the rows of the users table at the relational sink
    idem,               \* the last call made twice: its results after one and two calls
    api_calls,          \* calls made twice so far
    call,               \* the last direct call of a function: its arguments and result
    retry,              \* a run of retry_with_policy: its loop position and what it saw
    dlq_dir             \* the DLQ directory: its files, the date, the last write_event

omVars == <<in_memory_offsets, om_last, om_calls>>
startVars == <<pc, sinks, resume>>
dirVars == <<segments, inflight, appends>>
readerVars == <<processed_files, last_file, last_position, yielded, unread_at_poll>>
pipeVars == <<now_aware, next_event, batch, shutdown_flag, final, task>>
sinkVars == <<sink, dlq>>
histVars == <<submitted, outcomes, committed, offset_before>>
schemaVars == <<schemas, schema_incompatible>>
tableVars == <<table, idem, api_calls>>
extVars == <<schemaVars, tableVars, call, retry, dlq_dir>>
vars == <<omVars, startVars, dirVars, readerVars, pipeVars, sinkVars, histVars, extVars>>

\* ------------------------------------------------------------------------
\* ReplicationOffset (models/offset.py)
\* ------------------------------------------------------------------------
\* tz_aware: whether last_committed_at carries a timezone.  __post_init__
\* compares last_committed_at with datetime.now(), which is naive: Python
\* raises TypeError when one side is aware and the other is not.
OffsetKey(o) == <<o.table_name, o.keyspace, o.partition_id, o.destination>>

\* __post_init__: "ok", or the exception it raises
ReplicationOffset_post_init(o, now_is_aware) ==
    IF o.commitlog_position < 0 THEN "ValueError"
    ELSE IF o.last_event_timestamp_micros < 0 THEN "ValueError"
    ELSE IF o.tz_aware /= now_is_aware THEN "TypeError"    \* aware > naive
    ELSE IF o.events_replicated_count < 0 THEN "ValueError"
    ELSE "ok"

\* The offsets a caller of the OffsetManager can hold
CallerOffsets ==
    { o \in [ table_name : {TableName}, keyspace : {Keyspace},
              partition_id : Partitions, destination : Destinations,
              commitlog_file : CommitlogFiles, commitlog_position : OffsetPositions,
              last_event_timestamp_micros : 1..MaxTs,
              events_replicated_count : {1}, tz_aware : {FALSE} ] :
        ReplicationOffset_post_init(o, FALSE) = "ok" }

\* ------------------------------------------------------------------------
\* Python dict, insertion ordered
\* ------------------------------------------------------------------------
DictHas(d, k) == \E i \in 1..Len(d) : d[i].key = k
DictGet(d, k) ==
    IF DictHas(d, k) THEN d[CHOOSE i \in 1..Len(d) : d[i].key = k].val ELSE None
DictPut(d, k, v) ==
    IF DictHas(d, k)
    THEN [i \in 1..Len(d) |-> IF d[i].key = k THEN [key |-> k, val |-> v] ELSE d[i]]
    ELSE Append(d, [key |-> k, val |-> v])

\* ------------------------------------------------------------------------
\* OffsetManager (cdc/offset.py)
\* ------------------------------------------------------------------------
read_offset(store, table_name, keyspace, partition_id, destination) ==
    DictGet(store, <<table_name, keyspace, partition_id, destination>>)

\* mutant: the monotonicity check is dropped
write_offset_unchecked(store, offset) ==
    [raised |-> FALSE, store |-> DictPut(store, OffsetKey(offset), offset)]

\* mutant: the offset is stored before the check raises
write_offset_store_first(store, offset) ==
    LET existing == DictGet(store, OffsetKey(offset))
    IN  [raised |-> existing /= None /\
                    offset.last_event_timestamp_micros <
                        existing.last_event_timestamp_micros,
         store |-> DictPut(store, OffsetKey(offset), offset)]

\* write_offset: raised = TRUE is the ValueError; store is the dict afterwards
write_offset(store, offset) ==
    LET existing == DictGet(store, OffsetKey(offset))
    IN  IF existing /= None /\
           offset.last_event_timestamp_micros < existing.last_event_timestamp_micros
        THEN [raised |-> TRUE, store |-> store]
        ELSE [raised |-> FALSE, store |-> DictPut(store, OffsetKey(offset), offset)]

RECURSIVE LatestFrom(_, _, _, _)
LatestFrom(store, i, destination, latest) ==
    IF i > Len(store) THEN latest
    ELSE LET key == store[i].key
             offset == store[i].val
             take == key[1] = TableName /\ key[2] = Keyspace /\ key[4] = destination
                     /\ (latest = None \/
                         offset.last_event_timestamp_micros >
                             latest.last_event_timestamp_micros)
         IN  LatestFrom(store, i + 1, destination, IF take THEN offset ELSE latest)

read_latest_offset(store, destination) == LatestFrom(store, 1, destination, None)

\* OffsetManager.commit_offset: write_offset inside try / except Exception;
\* returned is its bool result, raised whether an exception leaves it
OffsetManager_commit_offset(store, offset) ==
    LET r == write_offset(store, offset)
    IN  [raised |-> FALSE, returned |-> ~r.raised, store |-> r.store]

\* ------------------------------------------------------------------------
\* CDCPipeline.run_continuous, lines 208-222: the resume point
\* ------------------------------------------------------------------------
NoResume == [file |-> 0, position |-> 0]      \* last_file = None, last_position = 0

RECURSIVE ResumeFrom(_, _, _, _)
ResumeFrom(store, enabled, i, acc) ==
    IF i > Len(DestOrder) THEN acc
    ELSE LET offset == IF DestOrder[i] \in enabled
                       THEN read_latest_offset(store, DestOrder[i]) ELSE None
         IN  ResumeFrom(store, enabled, i + 1,
                IF offset /= None
                THEN [file |-> offset.commitlog_file,
                      position |-> offset.commitlog_position]
                ELSE acc)

ResumePoint(store, enabled) == ResumeFrom(store, enabled, 1, NoResume)

\* ------------------------------------------------------------------------
\* Actions of SpecOffset
\* ------------------------------------------------------------------------
\* A caller invokes OffsetManager.write_offset(offset)
WriteOffset ==
    /\ pc = "init"
    /\ om_calls < MaxOffsetWrites
    /\ \E offset \in CallerOffsets :
          LET r == write_offset(in_memory_offsets, offset)
          IN  /\ in_memory_offsets' = r.store
              /\ om_last' = [op |-> "write_offset", offset |-> offset, raised |-> r.raised,
                             before |-> DictGet(in_memory_offsets, OffsetKey(offset)),
                             size_before |-> Len(in_memory_offsets)]
    /\ om_calls' = om_calls + 1
    /\ UNCHANGED <<startVars, dirVars, readerVars, pipeVars, sinkVars, histVars, extVars>>

\* A caller invokes OffsetManager.commit_offset(offset)
OMCommitOffset ==
    /\ pc = "init"
    /\ om_calls < MaxOffsetWrites
    /\ \E offset \in CallerOffsets :
          LET r == OffsetManager_commit_offset(in_memory_offsets, offset)
          IN  /\ in_memory_offsets' = r.store
              /\ om_last' = [op |-> "commit_offset", offset |-> offset, raised |-> r.raised,
                             before |-> DictGet(in_memory_offsets, OffsetKey(offset)),
                             size_before |-> Len(in_memory_offsets)]
    /\ om_calls' = om_calls + 1
    /\ UNCHANGED <<startVars, dirVars, readerVars, pipeVars, sinkVars, histVars, extVars>>

\* run_continuous: initialize_sinks, then the resume point is read
Startup ==
    /\ pc = "init"
    /\ \E enabled \in SUBSET Destinations :
          /\ sinks' = enabled
          /\ resume' = ResumePoint(in_memory_offsets, enabled)
    /\ pc' = "running"
    /\ UNCHANGED <<omVars, dirVars, readerVars, pipeVars, sinkVars, histVars, extVars>>


\* ------------------------------------------------------------------------
\* Commit log entries (cdc/parser.py)
\* ------------------------------------------------------------------------
Min(a, b) == IF a < b THEN a ELSE b

\* int.from_bytes(size_bytes, byteorder="big"); a value of 2^31 or more is
\* reported as 2^31 - 1, which like it exceeds the largest entry size accepted
BigEndian(b) ==
    IF b[1] >= 128 THEN 2147483647
    ELSE ((b[1] * 256 + b[2]) * 256 + b[3]) * 256 + b[4]
\* the 4-byte big-endian length prefix of n (n < 2^32)
Prefix(n) == << (n \div 16777216) % 256, (n \div 65536) % 256, (n \div 256) % 256, n % 256 >>

\* pat in data (bytes)
Contains(data, pat) ==
    \E i \in 0..(Len(data) - Len(pat)) : SubSeq(data, i + 1, i + Len(pat)) = pat

BytesSessions == <<115, 101, 115, 115, 105, 111, 110, 115>>                 \* b"sessions"
BytesTimeSeries == <<116, 105, 109, 101, 95, 115, 101, 114, 105, 101, 115>> \* b"time_series"

\* parse_commitlog_entry: ok = FALSE is ParseError
parse_commitlog_entry(commitlog_data) ==
    IF Len(commitlog_data) < MinEntryLen
    THEN [ok |-> FALSE, event_type |-> "", table_name |-> "", keyspace |-> ""]
    ELSE IF commitlog_data[1] \notin {73, 85, 68}
    THEN [ok |-> FALSE, event_type |-> "", table_name |-> "", keyspace |-> ""]
    ELSE [ok |-> TRUE,
          event_type |-> CASE commitlog_data[1] = 73 -> "INSERT"
                           [] commitlog_data[1] = 85 -> "UPDATE"
                           [] OTHER -> "DELETE",
          table_name |-> IF Contains(commitlog_data, BytesTimeSeries) THEN "time_series"
                         ELSE IF Contains(commitlog_data, BytesSessions) THEN "sessions"
                         ELSE "users",
          keyspace |-> "ecommerce"]

\* The entries the commit log writer appends: a frame is its prefix and payload
PayloadInsert == <<73, 0, 0, 0, 0, 0, 0, 0, 0, 0>>                  \* an INSERT on users
PayloadSessions == <<73>> \o BytesSessions \o <<0>>                 \* an INSERT on sessions
PayloadShort == <<73, 0, 0>>                                        \* too short to parse
Frames ==
    { Prefix(Len(PayloadInsert)) \o PayloadInsert,
      Prefix(Len(PayloadSessions)) \o PayloadSessions,
      Prefix(Len(PayloadShort)) \o PayloadShort,
      Prefix(0),                                                    \* entry_size == 0
      <<255, 255, 255, 255>> }                                      \* entry_size > 100_000_000
\* how many bytes of a frame reach the disk first: part of the prefix, the
\* prefix and part of the payload, or all of it
FirstChunk(frame) == {2, 6, Len(frame)} \cap (1..Len(frame))

\* ------------------------------------------------------------------------
\* CommitLogReader (cdc/reader.py)
\* ------------------------------------------------------------------------
\* f.seek(position); f.read(n)
FileRead(data, position, n) ==
    IF position >= Len(data) THEN <<>>
    ELSE SubSeq(data, position + 1, Min(position + n, Len(data)))

RECURSIVE ReadLoopReportAfterPrefix(_, _, _, _, _)
\* mutant: position is taken after the length prefix was read
ReadLoopReportAfterPrefix(data, name, table_name, keyspace, position) ==
    LET size_bytes == FileRead(data, position, PrefixLen)
    IN  IF Len(size_bytes) < PrefixLen THEN <<>>
        ELSE LET entry_size == BigEndian(size_bytes)
             IN  IF entry_size = 0 \/ entry_size > MaxEntrySize THEN <<>>
                 ELSE LET entry_data == FileRead(data, position + PrefixLen, entry_size)
                      IN  IF Len(entry_data) < entry_size THEN <<>>
                          ELSE LET event == parse_commitlog_entry(entry_data)
                                   rest == ReadLoopReportAfterPrefix(data, name, table_name,
                                               keyspace, position + PrefixLen + entry_size)
                               IN  IF event.ok /\ event.table_name = table_name
                                               /\ event.keyspace = keyspace
                                   THEN <<[event_type |-> event.event_type, file |-> name,
                                           position |-> position + PrefixLen]>> \o rest
                                   ELSE rest

RECURSIVE ReadLoop(_, _, _, _, _)
\* the while loop of _read_file_events from f.tell() = position: what it yields
ReadLoop(data, name, table_name, keyspace, position) ==
    LET size_bytes == FileRead(data, position, PrefixLen)
    IN  IF Len(size_bytes) < PrefixLen THEN <<>>                       \* end of file
        ELSE LET entry_size == BigEndian(size_bytes)
             IN  IF entry_size = 0 \/ entry_size > MaxEntrySize THEN <<>>   \* sanity check
                 ELSE LET entry_data == FileRead(data, position + PrefixLen, entry_size)
                      IN  IF Len(entry_data) < entry_size THEN <<>>    \* incomplete entry
                          ELSE LET event == parse_commitlog_entry(entry_data)
                                   rest == ReadLoop(data, name, table_name, keyspace,
                                                    position + PrefixLen + entry_size)
                               IN  IF event.ok /\ event.table_name = table_name
                                               /\ event.keyspace = keyspace
                                   THEN <<[event_type |-> event.event_type, file |-> name,
                                           position |-> position]>> \o rest
                                   ELSE rest                           \* filtered / ParseError

RECURSIVE ParseErrors(_, _)
\* the positions at which the while loop of _read_file_events, started at
\* position, takes its "except ParseError" branch
ParseErrors(data, position) ==
    LET size_bytes == FileRead(data, position, PrefixLen)
    IN  IF Len(size_bytes) < PrefixLen THEN <<>>
        ELSE LET entry_size == BigEndian(size_bytes)
             IN  IF entry_size = 0 \/ entry_size > MaxEntrySize THEN <<>>
                 ELSE LET entry_data == FileRead(data, position + PrefixLen, entry_size)
                      IN  IF Len(entry_data) < entry_size THEN <<>>
                          ELSE (IF parse_commitlog_entry(entry_data).ok THEN <<>>
                                ELSE <<position>>)
                               \o ParseErrors(data, position + PrefixLen + entry_size)

\* _read_file_events(commitlog_file, table_name, keyspace, start_position)
read_file_events(data, name, table_name, keyspace, start_position) ==
    ReadLoop(data, name, table_name, keyspace, start_position)

RECURSIVE ReadEventsLoopAbortOnError(_, _, _, _, _, _, _)
\* mutant: the except clause of read_events raises again
ReadEventsLoopAbortOnError(files, i, processed, start_file, start_position, io_errors, out) ==
    IF i > Len(files) THEN [yields |-> out, processed |-> processed]
    ELSE IF i \in processed
    THEN ReadEventsLoopAbortOnError(files, i + 1, processed, start_file, start_position,
                                    io_errors, out)
    ELSE IF i \in io_errors
    THEN [yields |-> out, processed |-> processed]
    ELSE LET position == IF i = start_file THEN start_position ELSE 0
         IN  ReadEventsLoopAbortOnError(files, i + 1, processed \cup {i}, start_file,
                 start_position, io_errors,
                 out \o read_file_events(files[i], i, TableName, Keyspace, position))

RECURSIVE ReadEventsLoop(_, _, _, _, _, _, _)
\* the for loop of read_events over commitlog_files[i..]; the files of
\* io_errors raise IOError when opened
ReadEventsLoop(files, i, processed, start_file, start_position, io_errors, out) ==
    IF i > Len(files) THEN [yields |-> out, processed |-> processed]
    ELSE IF i \in processed
    THEN ReadEventsLoop(files, i + 1, processed, start_file, start_position, io_errors, out)
    ELSE IF i \in io_errors                                   \* except Exception: continue
    THEN ReadEventsLoop(files, i + 1, processed, start_file, start_position, io_errors, out)
    ELSE LET position == IF i = start_file THEN start_position ELSE 0
         IN  ReadEventsLoop(files, i + 1, processed \cup {i}, start_file, start_position,
                 io_errors,
                 out \o read_file_events(files[i], i, TableName, Keyspace, position))

RECURSIVE ReadEventsLoopBroken(_, _, _, _, _, _, _)
\* the for loop of read_events when the read of a file i in DOMAIN broken
\* raises IOError after broken[i] events of the file were yielded: the events
\* are with the consumer, the file is not added to _processed_files
ReadEventsLoopBroken(files, i, processed, start_file, start_position, broken, out) ==
    IF i > Len(files) THEN [yields |-> out, processed |-> processed]
    ELSE IF i \in processed
    THEN ReadEventsLoopBroken(files, i + 1, processed, start_file, start_position, broken, out)
    ELSE LET position == IF i = start_file THEN start_position ELSE 0
             events == read_file_events(files[i], i, TableName, Keyspace, position)
         IN  IF i \in DOMAIN broken
             THEN ReadEventsLoopBroken(files, i + 1, processed, start_file, start_position,
                      broken, out \o SubSeq(events, 1, Min(broken[i], Len(events))))
             ELSE ReadEventsLoopBroken(files, i + 1, processed \cup {i}, start_file,
                      start_position, broken, out \o events)

\* read_events(table_name, keyspace, start_file, start_position) in a
\* directory where the reads of the files of broken fail part-way
read_events_broken(files, processed, start_file, start_position, broken) ==
    IF Len(files) = 0 THEN [yields |-> <<>>, processed |-> processed]
    ELSE ReadEventsLoopBroken(files,
                              IF start_file /= 0 /\ start_file \in 1..Len(files)
                              THEN start_file ELSE 1,
                              processed, start_file, start_position, broken, <<>>)

\* mutant: a file is read again from the resume point instead of being skipped
read_events_no_skip(files, processed, start_file, start_position) ==
    ReadEventsLoop(files, IF start_file \in 1..Len(files) THEN start_file ELSE 1,
                   {}, start_file, start_position, {}, <<>>)

\* read_events(table_name, keyspace, start_file, start_position) in a
\* directory where the files of io_errors cannot be read
read_events_io(files, processed, start_file, start_position, io_errors) ==
    IF Len(files) = 0 THEN [yields |-> <<>>, processed |-> processed]
    ELSE ReadEventsLoop(files,
                        IF start_file /= 0 /\ start_file \in 1..Len(files)
                        THEN start_file ELSE 1,
                        processed, start_file, start_position, io_errors, <<>>)

\* read_events(table_name, keyspace, start_file, start_position)
read_events(files, processed, start_file, start_position) ==
    read_events_io(files, processed, start_file, start_position, {})

\* every complete entry of the table that is on disk
OnDisk(files) ==
    UNION { { [file |-> e.file, position |-> e.position] :
                e \in { read_file_events(files[i], i, TableName, Keyspace, 0)[j] :
                          j \in 1..Len(read_file_events(files[i], i, TableName, Keyspace, 0)) } }
            : i \in 1..Len(files) }
YieldedSet(ys) == { [file |-> ys[j].file, position |-> ys[j].position] : j \in 1..Len(ys) }

\* ------------------------------------------------------------------------
\* The sinks (sinks/postgres.py, sinks/timescaledb.py, sinks/clickhouse.py)
\* ------------------------------------------------------------------------
\* A sink is [txn, rows, cdc_offsets]: the statements of the open transaction
\* of self._conn (event ids), the events whose statement is durable, and the
\* row of the offset table.  ClickHouse has no transactions: txn stays empty.
EventTypes == {"INSERT", "DELETE"}              \* both sinks write UPDATE as INSERT
Transactional == {"POSTGRES", "TIMESCALEDB"}     \* TimescaleDBSink(PostgresSink)
PipelineCommitlogFile == "CommitLog-7-1700000000.log"
\* config.pipeline.max_in_flight_batches (ge=1): the least value it can have
max_in_flight_batches == 1

Ids(events) == [i \in 1..Len(events) |-> events[i].id]
Count(seq, x) == Cardinality({i \in 1..Len(seq) : seq[i] = x})

\* the events of a batch for which write_batch executes a statement
Statements(destination, events) ==
    IF destination \in Transactional THEN 1..Len(events)
    ELSE {i \in 1..Len(events) : events[i].event_type /= "DELETE"}

\* mutant: write_batch commits the transaction itself
PostgresSink_write_batch_commits(s, events, fail_at) ==
    IF fail_at /= 0
    THEN [raised |-> TRUE, count |-> 0, sink |-> [s EXCEPT !.txn = <<>>]]
    ELSE [raised |-> FALSE, count |-> Len(events),
          sink |-> [s EXCEPT !.rows = @ \o s.txn \o Ids(events), !.txn = <<>>]]

\* PostgresSink.write_batch; fail_at is the statement that raises (0: none)
PostgresSink_write_batch(s, events, fail_at) ==
    IF fail_at /= 0
    THEN [raised |-> TRUE, count |-> 0,
          sink |-> [s EXCEPT !.txn = <<>>]]                   \* rollback()
    ELSE [raised |-> FALSE, count |-> Len(events),
          sink |-> [s EXCEPT !.txn = @ \o Ids(events)]]       \* no commit here

\* ClickHouseSink.write_batch: every INSERT is durable at once, DELETE events
\* are skipped and not counted
ClickHouseSink_write_batch(s, events, fail_at) ==
    LET last == IF fail_at /= 0 THEN fail_at - 1 ELSE Len(events)
        done == SelectSeq(SubSeq(events, 1, last), LAMBDA e : e.event_type /= "DELETE")
    IN  [raised |-> fail_at /= 0,
         count |-> IF fail_at /= 0 THEN 0 ELSE Len(done),
         sink |-> [s EXCEPT !.rows = @ \o Ids(done)]]

write_batch(destination, s, events, fail_at) ==
    IF destination \in Transactional
    THEN PostgresSink_write_batch(s, events, fail_at)
    ELSE ClickHouseSink_write_batch(s, events, fail_at)

\* mutant: the upsert sets events_replicated_count to EXCLUDED's value
PostgresSink_commit_offset_overwrites_count(s, offset, fails) ==
    IF fails
    THEN [raised |-> TRUE, sink |-> [s EXCEPT !.txn = <<>>]]
    ELSE [raised |-> FALSE,
          sink |-> [txn |-> <<>>, rows |-> s.rows \o s.txn, cdc_offsets |-> offset]]

\* PostgresSink.commit_offset: the upsert of the offset row, then commit();
\* fails: the upsert or the commit raises, and the transaction is rolled back
PostgresSink_commit_offset(s, offset, fails) ==
    IF fails
    THEN [raised |-> TRUE, sink |-> [s EXCEPT !.txn = <<>>]]
    ELSE [raised |-> FALSE,
          sink |-> [txn |-> <<>>,
                    rows |-> s.rows \o s.txn,
                    cdc_offsets |->
                        IF s.cdc_offsets = None THEN offset
                        ELSE [offset EXCEPT !.events_replicated_count =
                                 s.cdc_offsets.events_replicated_count + @]]]

\* ClickHouseSink.commit_offset: one more row in the ReplacingMergeTree
ClickHouseSink_commit_offset(s, offset, fails) ==
    IF fails THEN [raised |-> TRUE, sink |-> s]
    ELSE [raised |-> FALSE, sink |-> [s EXCEPT !.cdc_offsets = offset]]

commit_offset(destination, s, offset, fails) ==
    IF destination \in Transactional
    THEN PostgresSink_commit_offset(s, offset, fails)
    ELSE ClickHouseSink_commit_offset(s, offset, fails)

\* disconnect(): the connection is closed, its open transaction is lost
disconnect(s) == [s EXCEPT !.txn = <<>>]

\* ------------------------------------------------------------------------
\* CDCPipeline (main.py)
\* ------------------------------------------------------------------------
\* OffsetManager.create_offset: last_committed_at = datetime.now(timezone.utc)
create_offset(destination, event_timestamp_micros, events_count, now_is_aware) ==
    LET offset == [table_name |-> TableName, keyspace |-> Keyspace, partition_id |-> 0,
                   destination |-> destination,
                   commitlog_file |-> PipelineCommitlogFile, commitlog_position |-> 0,
                   last_event_timestamp_micros |-> event_timestamp_micros,
                   events_replicated_count |-> events_count, tz_aware |-> TRUE]
    IN  [raised |-> ReplicationOffset_post_init(offset, now_is_aware) /= "ok",
         offset |-> offset]

\* mutant: the offset is committed although write_batch raised
write_to_sink_commits_after_failure(destination, s, events, fail_at, now_is_aware) ==
    LET w == write_batch(destination, s, events, fail_at)
        c == create_offset(destination, events[Len(events)].timestamp_micros,
                           Len(events), TRUE)
    IN  IF w.raised
        THEN [sink |-> commit_offset(destination, w.sink, c.offset, FALSE).sink,
              task |-> [state |-> "failed", write_raised |-> TRUE, count |-> 0,
                        offset |-> None]]
        ELSE [sink |-> w.sink,
              task |-> [state |-> "commit", write_raised |-> FALSE, count |-> w.count,
                        offset |-> c.offset]]

\* _write_to_sink up to its second await: write_batch, and create_offset when
\* count > 0.  state "commit": suspended at sink.commit_offset(offset);
\* "done": returned count; "failed": an exception left the coroutine.  count is
\* what write_batch returned; offset is the offset handed to commit_offset.
write_to_sink(destination, s, events, fail_at, now_is_aware) ==
    LET w == write_batch(destination, s, events, fail_at)
        c == create_offset(destination, events[Len(events)].timestamp_micros,
                           w.count, now_is_aware)
    IN  [sink |-> w.sink,
         task |-> IF w.raised
                  THEN [state |-> "failed", write_raised |-> TRUE, count |-> 0,
                        offset |-> None]
                  ELSE IF w.count = 0
                  THEN [state |-> "done", write_raised |-> FALSE, count |-> 0,
                        offset |-> None]
                  ELSE IF c.raised
                  THEN [state |-> "failed", write_raised |-> FALSE, count |-> w.count,
                        offset |-> None]
                  ELSE [state |-> "commit", write_raised |-> FALSE, count |-> w.count,
                        offset |-> c.offset]]

\* ------------------------------------------------------------------------
\* Schemas (models/schema.py) and the SchemaValidator (transform/validator.py)
\* ------------------------------------------------------------------------
\* A TableSchema is [columns, partition_keys, clustering_keys]: columns maps a
\* column name to its CQL type, the keys are lists of column names.
\* str.lower() on the type names the model uses
Lower(t) ==
    CASE t \in {"INT", "Int"} -> "int"
      [] t \in {"BIGINT", "BigInt"} -> "bigint"
      [] t = "FLOAT" -> "float"
      [] t = "DOUBLE" -> "double"
      [] t = "Decimal" -> "decimal"
      [] t = "TEXT" -> "text"
      [] t = "VarChar" -> "varchar"
      [] OTHER -> t

\* Python None in a field that otherwise holds a type name
NoType == "<None>"

InSeq(x, seq) == \E i \in 1..Len(seq) : seq[i] = x

\* SchemaChange._is_compatible_type_change: compatible_conversions
CompatibleConversions ==
    { <<"int", "bigint">>, <<"float", "double">>, <<"decimal", "double">>,
      <<"text", "varchar">>, <<"varchar", "text">> }

\* mutant: the type names are compared as given
SchemaChange_is_compatible_case_sensitive(change) ==
    IF change.change_type \in {"ADD_COLUMN", "DROP_COLUMN"} THEN TRUE
    ELSE IF change.change_type = "ALTER_TYPE"
    THEN IF change.old_type = NoType \/ change.new_type = NoType THEN FALSE
         ELSE <<change.old_type, change.new_type>> \in CompatibleConversions
    ELSE FALSE

\* SchemaChange.is_compatible
SchemaChange_is_compatible(change) ==
    IF change.change_type \in {"ADD_COLUMN", "DROP_COLUMN"} THEN TRUE
    ELSE IF change.change_type = "ALTER_TYPE"
    THEN IF change.old_type = NoType \/ change.new_type = NoType THEN FALSE
         ELSE <<Lower(change.old_type), Lower(change.new_type)>> \in CompatibleConversions
    ELSE FALSE

\* TableSchema.compare(other): the changes, as a set
TableSchema_compare(self, other) ==
    LET pk == IF self.partition_keys /= other.partition_keys
              THEN { [change_type |-> "ALTER_TYPE", column_name |-> self.partition_keys[i],
                      old_type |-> "partition_key", new_type |-> "not_partition_key"] :
                     i \in { j \in 1..Len(self.partition_keys) :
                               ~InSeq(self.partition_keys[j], other.partition_keys) } }
              ELSE {}
        ck == IF self.clustering_keys /= other.clustering_keys
              THEN { [change_type |-> "ALTER_TYPE", column_name |-> self.clustering_keys[i],
                      old_type |-> "clustering_key", new_type |-> "not_clustering_key"] :
                     i \in { j \in 1..Len(self.clustering_keys) :
                               ~InSeq(self.clustering_keys[j], other.clustering_keys) } }
              ELSE {}
        added == { [change_type |-> "ADD_COLUMN", column_name |-> c,
                    old_type |-> NoType, new_type |-> other.columns[c]] :
                   c \in DOMAIN other.columns \ DOMAIN self.columns }
        dropped == { [change_type |-> "DROP_COLUMN", column_name |-> c,
                      old_type |-> self.columns[c], new_type |-> NoType] :
                     c \in DOMAIN self.columns \ DOMAIN other.columns }
        altered == { [change_type |-> "ALTER_TYPE", column_name |-> c,
                      old_type |-> self.columns[c], new_type |-> other.columns[c]] :
                     c \in { x \in DOMAIN self.columns \cap DOMAIN other.columns :
                               self.columns[x] /= other.columns[x] } }
    IN  pk \cup ck \cup added \cup dropped \cup altered

\* SchemaValidator.is_schema_compatible(old_schema, new_schema)
is_schema_compatible(old_schema, new_schema) ==
    \A change \in TableSchema_compare(old_schema, new_schema) :
        SchemaChange_is_compatible(change)

\* the versions of ecommerce.users that get registered while the pipeline runs
UsersSchema(age_type) ==
    [columns |-> [c \in {"user_id", "age"} |-> IF c = "age" THEN age_type ELSE "uuid"],
     partition_keys |-> <<"user_id">>, clustering_keys |-> <<>>]
PipelineSchemas == {UsersSchema("int"), UsersSchema("bigint")}

\* ------------------------------------------------------------------------
\* Table contents at the relational sink (sinks/postgres.py, write_batch)
\* ------------------------------------------------------------------------
\* The users table as the connection of the sink sees it: a row per primary
\* key (partition key, clustering key), or Absent.  A row gives each column a
\* value or "NULL"; an event gives each column a value or "unset" when the
\* column is not in event.columns.
RowKeys == {<<1, 1>>, <<1, 2>>}
Columns == {"a", "b"}
ColumnValues == [a : {"x", "y"}, b : {"x"}]
Absent == [absent |-> TRUE]
EmptyTable == [k \in RowKeys |-> Absent]

\* the events a caller can pass to write_batch: a DELETE, an INSERT of every
\* column, an UPDATE of one column (ChangeEvent rejects an INSERT or UPDATE
\* with no column)
ContentEvents ==
    { [event_type |-> "DELETE", key |-> k, columns |-> [c \in Columns |-> "unset"]] :
        k \in RowKeys }
    \cup { [event_type |-> "INSERT", key |-> k, columns |-> cols] :
             k \in RowKeys, cols \in ColumnValues }
    \cup { [event_type |-> "UPDATE", key |-> k, columns |-> cols] :
             k \in RowKeys,
             cols \in { [c \in Columns |-> IF c = d THEN v[d] ELSE "unset"] :
                          d \in Columns, v \in ColumnValues } }
ContentBatches == UNION { [1..n -> ContentEvents] : n \in 1..MaxBatchLen }

\* mutant: a plain INSERT, without the ON CONFLICT clause
execute_statement_plain_insert(rows, event) ==
    IF event.event_type = "DELETE"
    THEN [raised |-> FALSE,
          rows |-> [k \in RowKeys |-> IF k[1] = event.key[1] THEN Absent ELSE rows[k]]]
    ELSE IF rows[event.key] /= Absent
    THEN [raised |-> TRUE, rows |-> rows]
    ELSE [raised |-> FALSE,
          rows |-> [rows EXCEPT ![event.key] =
                      [c \in Columns |-> IF event.columns[c] = "unset" THEN "NULL"
                                         ELSE event.columns[c]]]]

\* the statement write_batch executes for one event.  DELETE: by the partition
\* key.  INSERT / UPDATE: INSERT ... ON CONFLICT (primary key) DO UPDATE SET
\* the columns of the event.
execute_statement(rows, event) ==
    IF event.event_type = "DELETE"
    THEN [raised |-> FALSE,
          rows |-> [k \in RowKeys |-> IF k[1] = event.key[1] THEN Absent ELSE rows[k]]]
    ELSE [raised |-> FALSE,
          rows |-> [rows EXCEPT ![event.key] =
                      [c \in Columns |->
                          IF event.columns[c] /= "unset" THEN event.columns[c]
                          ELSE IF rows[event.key] = Absent THEN "NULL"
                          ELSE rows[event.key][c]]]]

RECURSIVE ExecuteFrom(_, _, _)
ExecuteFrom(rows, events, i) ==
    IF i > Len(events) THEN [raised |-> FALSE, rows |-> rows]
    ELSE LET r == execute_statement(rows, events[i])
         IN  IF r.raised THEN r ELSE ExecuteFrom(r.rows, events, i + 1)

\* PostgresSink.write_batch on the contents: txn_start is the table at the
\* start of the open transaction, which rollback() restores
PostgresSink_write_batch_rows(txn_start, rows, events) ==
    LET r == ExecuteFrom(rows, events, 1)
    IN  IF r.raised THEN [raised |-> TRUE, count |-> 0, rows |-> txn_start]
        ELSE [raised |-> FALSE, count |-> Len(events), rows |-> r.rows]

\* ------------------------------------------------------------------------
\* The retry engine (sinks/retry.py)
\* ------------------------------------------------------------------------
\* str(error).lower(), on the phrases an error message is made of
LowerPhrase(p) ==
    CASE p = "Timeout" -> "timeout"
      [] p = "Authentication failed" -> "authentication failed"
      [] p = "Invalid" -> "invalid"
      [] OTHER -> p

retryable_patterns ==
    {"connection", "timeout", "temporary", "unavailable", "network", "unreachable",
     "refused", "reset", "broken pipe"}
permanent_patterns ==
    {"permission denied", "authentication failed", "syntax error", "invalid",
     "does not exist"}

\* the exceptions the wrapped operation raises: the class, and the phrases
\* its message contains
Errors ==
    { [class |-> "Exception", message |-> {"Timeout"}],
      [class |-> "Exception", message |-> {"disk full"}],
      [class |-> "Exception", message |-> {"Authentication failed"}],
      [class |-> "Exception", message |-> {"Invalid"}],
      [class |-> "Exception", message |-> {"connection", "authentication failed"}],
      [class |-> "ConnectionError", message |-> {"does not exist"}] }

is_retryable_error(error) ==
    LET error_str == { LowerPhrase(p) : p \in error.message }
    IN  IF error.class \in {"ConnectionError", "TimeoutError"} THEN TRUE
        ELSE IF error_str \cap retryable_patterns /= {} THEN TRUE
        ELSE IF error_str \cap permanent_patterns /= {} THEN FALSE
        ELSE TRUE

\* mutant: the operation is given up one attempt early
after_error_gives_up_early(error, attempt, max_attempts) ==
    IF ~is_retryable_error(error) \/ attempt >= max_attempts - 1 THEN "raise" ELSE "sleep"

\* the except branch of retry_with_policy and of with_retry's wrapper
after_error(error, attempt, max_attempts) ==
    IF ~is_retryable_error(error) \/ attempt >= max_attempts THEN "raise" ELSE "sleep"

NoRetry ==
    [state |-> "idle", max_attempts |-> 1, attempt |-> 0, invocations |-> 0, sleeps |-> 0,
     errors |-> <<>>, raised |-> None]

\* ------------------------------------------------------------------------
\* The dead letter queue (dlq/writer.py)
\* ------------------------------------------------------------------------
Days == 1..MaxDays
DLQFileNames == Destinations \X Days          \* dlq_{destination}_{date}.jsonl
NoDLQ ==
    [today |-> 1, files |-> [n \in DLQFileNames |-> <<>>], writes |-> 0,
     last |-> [op |-> "none"]]

\* mutant: the file is opened with mode "w"
open_w_write(lines, json_line) == <<json_line>>

\* with open(filepath, "a") as f: f.write(json_line + "\n")
open_a_write(lines, json_line) == Append(lines, json_line)

\* DLQWriter.write_event: failure is the statement of the try block that
\* raises, "none" when the line is written
DLQWriter_write_event(files, today, event_id, destination, error_type, failure) ==
    LET filename == <<destination, today>>
        json_line == [event_id |-> event_id, destination |-> destination,
                      error_type |-> error_type]
    IN  [raised |-> FALSE,
         files |-> IF failure = "none"
                   THEN [files EXCEPT ![filename] = open_a_write(@, json_line)]
                   ELSE files]

\* ------------------------------------------------------------------------
\* Actions of SpecReader
\* ------------------------------------------------------------------------
\* Cassandra creates the next segment
CreateSegment ==
    /\ inflight = <<>>
    /\ Len(segments) < Cardinality(CommitlogFiles)
    /\ segments' = Append(segments, <<>>)
    /\ UNCHANGED <<inflight, appends, omVars, startVars, readerVars,
                   pipeVars, sinkVars, histVars, extVars>>

\* Cassandra starts appending an entry to the active segment
AppendEntry ==
    /\ inflight = <<>>
    /\ Len(segments) > 0
    /\ appends < MaxAppends
    /\ \E frame \in Frames : \E k \in FirstChunk(frame) :
          /\ segments' = [segments EXCEPT ![Len(segments)] = @ \o SubSeq(frame, 1, k)]
          /\ inflight' = SubSeq(frame, k + 1, Len(frame))
    /\ appends' = appends + 1
    /\ UNCHANGED <<omVars, startVars, readerVars, pipeVars, sinkVars, histVars, extVars>>

\* the rest of the entry reaches the disk
AppendRest ==
    /\ inflight /= <<>>
    /\ segments' = [segments EXCEPT ![Len(segments)] = @ \o inflight]
    /\ inflight' = <<>>
    /\ UNCHANGED <<appends, omVars, startVars, readerVars, pipeVars, sinkVars, histVars, extVars>>

\* one pass of the while loop of poll_for_new_events, its consumer taking
\* every event the pass yields
PollCycle ==
    LET r == read_events(segments, processed_files, last_file, last_position)
        n == Len(r.yields)
    IN  /\ yielded' = yielded \o r.yields
        /\ last_file' = IF n > 0 THEN r.yields[n].file ELSE last_file
        /\ last_position' = IF n > 0 THEN r.yields[n].position ELSE last_position
        /\ processed_files' = r.processed
        /\ unread_at_poll' = OnDisk(segments) \ YieldedSet(yielded')
        /\ UNCHANGED <<omVars, startVars, dirVars, pipeVars, sinkVars, histVars, extVars>>

\* one pass of the while loop of poll_for_new_events in a directory where
\* some segments cannot be read
PollCycleFaulty ==
    \E io_errors \in SUBSET (1..Len(segments)) :
        LET r == read_events_io(segments, processed_files, last_file, last_position, io_errors)
            n == Len(r.yields)
        IN  /\ yielded' = yielded \o r.yields
            /\ last_file' = IF n > 0 THEN r.yields[n].file ELSE last_file
            /\ last_position' = IF n > 0 THEN r.yields[n].position ELSE last_position
            /\ processed_files' = r.processed
            /\ unread_at_poll' = OnDisk(segments) \ YieldedSet(yielded')
            /\ call' = [op |-> "read_events", io_errors |-> io_errors]
            /\ UNCHANGED <<omVars, startVars, dirVars, pipeVars, sinkVars, histVars,
                           schemaVars, tableVars, retry, dlq_dir>>

\* one pass of the while loop of poll_for_new_events in which f.read raises
\* IOError in some segments, after some of their entries were yielded
PollCycleBroken ==
    /\ Len(yielded) <= MaxAppends
    /\ \E bad \in SUBSET (1..Len(segments)) : \E broken \in [bad -> 0..MaxAppends] :
        LET r == read_events_broken(segments, processed_files, last_file, last_position,
                                    broken)
            n == Len(r.yields)
        IN  /\ yielded' = yielded \o r.yields
            /\ last_file' = IF n > 0 THEN r.yields[n].file ELSE last_file
            /\ last_position' = IF n > 0 THEN r.yields[n].position ELSE last_position
            /\ processed_files' = r.processed
            /\ unread_at_poll' = OnDisk(segments) \ YieldedSet(yielded')
            /\ UNCHANGED <<omVars, startVars, dirVars, pipeVars, sinkVars, histVars, extVars>>

InitDir ==
    /\ segments = <<>>
    /\ inflight = <<>>
    /\ appends = 0

InitReaderVars ==
    /\ processed_files = {}
    /\ last_file = 0
    /\ last_position = 0
    /\ yielded = <<>>
    /\ unread_at_poll = {}

InitOM ==
    /\ in_memory_offsets = <<>>
    /\ om_last = None
    /\ om_calls = 0
    /\ pc = "init"
    /\ sinks = {}
    /\ resume = NoResume

\* a connected sink with nothing written; _write_to_sink not running
NewSink == [txn |-> <<>>, rows |-> <<>>, cdc_offsets |-> None]
NoCall == [op |-> "none", once |-> None, twice |-> None, count |-> 0,
           changed |-> FALSE, deleted |-> FALSE]
NoPureCall == [op |-> "none"]
NoTask == [state |-> "none", write_raised |-> FALSE, count |-> 0, offset |-> None]

InitPipe ==
    /\ next_event = 1
    /\ batch = <<>>
    /\ shutdown_flag = FALSE
    /\ final = FALSE
    /\ task = [d \in Destinations |-> NoTask]
    /\ sink = [d \in Destinations |-> NewSink]
    /\ dlq = [d \in Destinations |-> <<>>]
    /\ submitted = <<>>
    /\ outcomes = <<>>
    /\ committed = [d \in Destinations |-> <<>>]
    /\ offset_before = [d \in Destinations |-> None]
    /\ schemas = None
    /\ schema_incompatible = FALSE
    /\ table = EmptyTable
    /\ idem = NoCall
    /\ api_calls = 0
    /\ call = NoPureCall
    /\ retry = NoRetry
    /\ dlq_dir = NoDLQ

InitReader == InitOM /\ InitDir /\ InitReaderVars /\ InitPipe /\ now_aware = FALSE

NextReader == CreateSegment \/ AppendEntry \/ AppendRest \/ PollCycle

SpecReader == InitReader /\ [][NextReader]_vars

NextRepoll == CreateSegment \/ AppendEntry \/ AppendRest \/ PollCycleBroken

SpecRepoll == InitReader /\ [][NextRepoll]_vars

NextFault == CreateSegment \/ AppendEntry \/ AppendRest \/ PollCycleFaulty

SpecFault == InitReader /\ [][NextFault]_vars

InitOffset == InitOM /\ InitDir /\ InitReaderVars /\ InitPipe /\ now_aware = FALSE

NextOffset == WriteOffset \/ OMCommitOffset \/ Startup

SpecOffset == InitOffset /\ [][NextOffset]_vars

\* ------------------------------------------------------------------------
\* Actions of Spec
\* ------------------------------------------------------------------------
\* process_batch(events) up to asyncio.gather: one task per sink
process_batch(events, is_final) ==
    /\ batch' = events
    /\ final' = is_final
    /\ pc' = "gather"
    /\ task' = [d \in Destinations |->
                  IF d \in sinks THEN [NoTask EXCEPT !.state = "write"] ELSE NoTask]
    /\ submitted' = Append(submitted, Ids(events))
    /\ offset_before' = [d \in Destinations |-> sink[d].cdc_offsets]
    /\ UNCHANGED <<sink, dlq, outcomes, committed>>

\* the finally clause of run_continuous
shutdown_sinks ==
    /\ pc' = "stopped"
    /\ sink' = [d \in Destinations |-> IF d \in sinks THEN disconnect(sink[d]) ELSE sink[d]]

\* mutant: process_batch is started without being awaited
process_batch_not_awaited == pc \in {"running", "gather"}

\* run_continuous awaits process_batch: the generator is advanced only when
\* no process_batch call is pending
process_batch_awaited == pc = "running"

\* poll_for_new_events yields an event: the body of the for loop of
\* run_continuous, up to the await of process_batch
TailerYield ==
    /\ process_batch_awaited
    /\ next_event <= MaxEvents
    /\ next_event' = next_event + 1
    /\ \E event_type \in EventTypes :
          LET event == [id |-> next_event, event_type |-> event_type,
                        timestamp_micros |-> next_event]
          IN  IF shutdown_flag
              THEN IF batch /= <<>>
                   THEN process_batch(batch, TRUE)
                   ELSE /\ shutdown_sinks
                        /\ UNCHANGED <<batch, final, task, dlq, histVars>>
              ELSE IF Len(batch) + 1 >= BatchSize
              THEN process_batch(Append(batch, event), FALSE)
              ELSE /\ batch' = Append(batch, event)
                   /\ UNCHANGED <<pc, final, task, sinkVars, histVars>>
    /\ UNCHANGED <<extVars, omVars, sinks, resume, dirVars, readerVars, now_aware, shutdown_flag>>

\* the task of one sink runs from its start to sink.commit_offset
WriteToSink(d) ==
    /\ pc = "gather"
    /\ d \in sinks
    /\ task[d].state = "write"
    /\ \E fail_at \in {0} \cup Statements(d, batch) :
          LET r == write_to_sink(d, sink[d], batch, fail_at, now_aware)
          IN  /\ sink' = [sink EXCEPT ![d] = r.sink]
              /\ task' = [task EXCEPT ![d] = r.task]
    /\ UNCHANGED <<extVars, omVars, startVars, dirVars, readerVars, now_aware, next_event, batch,
                   shutdown_flag, final, dlq, histVars>>

\* the task of one sink resumes in sink.commit_offset and returns or raises
CommitOffset(d) ==
    /\ pc = "gather"
    /\ d \in sinks
    /\ task[d].state = "commit"
    /\ \E fails \in BOOLEAN :
          LET r == commit_offset(d, sink[d], task[d].offset, fails)
          IN  /\ sink' = [sink EXCEPT ![d] = r.sink]
              /\ task' = [task EXCEPT ![d].state = IF r.raised THEN "failed" ELSE "done"]
              /\ committed' = IF r.raised THEN committed
                              ELSE [committed EXCEPT ![d] = Append(@, Len(submitted))]
    /\ UNCHANGED <<extVars, omVars, startVars, dirVars, readerVars, now_aware, next_event, batch,
                   shutdown_flag, final, dlq, submitted, outcomes, offset_before>>

\* mutant: gather without return_exceptions, the first exception ends the await
gather_returns_on_first_exception ==
    \/ \A d \in sinks : task[d].state \in {"done", "failed"}
    \/ \E d \in sinks : task[d].state = "failed"

\* asyncio.gather(*write_tasks, return_exceptions=True) is done when every
\* task has returned or raised
gather_returns == \A d \in sinks : task[d].state \in {"done", "failed"}

\* asyncio.gather(return_exceptions=True) returns: the results are logged, and
\* run_continuous empties the batch, or leaves the loop after the final one
ProcessBatchReturn ==
    /\ pc = "gather"
    /\ gather_returns
    /\ outcomes' = Append(outcomes, task)
    /\ batch' = <<>>
    /\ IF final THEN shutdown_sinks ELSE pc' = "running" /\ UNCHANGED sink
    /\ UNCHANGED <<extVars, omVars, sinks, resume, dirVars, readerVars, now_aware, next_event,
                   shutdown_flag, final, task, dlq, submitted, committed, offset_before>>

\* SIGTERM / SIGINT: signal_handler calls pipeline.shutdown()
Shutdown ==
    /\ pc \in {"running", "gather"}
    /\ ~shutdown_flag
    /\ shutdown_flag' = TRUE
    /\ UNCHANGED <<extVars, omVars, startVars, dirVars, readerVars, now_aware, next_event, batch,
                   final, task, sinkVars, histVars>>

\* SchemaValidator.register_schema(schema), while the pipeline runs; the
\* classification of the new version is what is_schema_compatible gives for
\* the version it replaces
RegisterSchema ==
    /\ pc \in {"running", "gather"}
    /\ \E schema \in PipelineSchemas :
          /\ schemas' = schema
          /\ schema_incompatible' = (schemas /= None /\ ~is_schema_compatible(schemas, schema))
    /\ UNCHANGED <<omVars, startVars, dirVars, readerVars, pipeVars, sinkVars, histVars,
                   tableVars, call, retry, dlq_dir>>

\* The pipeline as main() runs it: the OffsetManager is new.  now_aware = FALSE
\* is the program as written: create_offset raises TypeError in __post_init__.
\* now_aware = TRUE is the program with that comparison between two aware
\* datetimes, in which _write_to_sink reaches sink.commit_offset.
Init == InitOM /\ InitDir /\ InitReaderVars /\ InitPipe /\ now_aware \in BOOLEAN

Next ==
    \/ Startup
    \/ TailerYield
    \/ \E d \in Destinations : WriteToSink(d)
    \/ \E d \in Destinations : CommitOffset(d)
    \/ ProcessBatchReturn
    \/ Shutdown

Spec == Init /\ [][Next]_vars

\* The pipeline while new schema versions of the table are registered with the
\* SchemaValidator
\* mutant: process_batch without its first two lines
process_batch_without_empty_check(events) == FALSE

\* process_batch: "if not events: return"
process_batch_returns_at_once(events) == events = <<>>

\* a caller awaits pipeline.process_batch([], table_name, keyspace) between
\* two batches of run_continuous
ProcessEmptyBatch ==
    /\ pc = "running"
    /\ call.op /= "process_batch"
    /\ call' = [op |-> "process_batch", events |-> <<>>]
    /\ IF process_batch_returns_at_once(<<>>)
       THEN UNCHANGED <<pc, batch, final, task, sinkVars, histVars>>
       ELSE process_batch(<<>>, FALSE)
    /\ UNCHANGED <<omVars, sinks, resume, dirVars, readerVars, now_aware, next_event,
                   shutdown_flag, schemaVars, tableVars, retry, dlq_dir>>

NextEmpty == Next \/ ProcessEmptyBatch

SpecEmpty == Init /\ [][NextEmpty]_vars

RECURSIVE InitializeSinksFrom(_, _, _, _)
\* initialize_sinks from the i-th destination on: each enabled sink is
\* connected and entered in self.sinks; the connect() of a sink of failing
\* raises SinkError, which leaves initialize_sinks
InitializeSinksFrom(i, enabled, failing, connected) ==
    IF i > Len(DestOrder) THEN [raised |-> FALSE, sinks |-> connected]
    ELSE IF DestOrder[i] \notin enabled
    THEN InitializeSinksFrom(i + 1, enabled, failing, connected)
    ELSE IF DestOrder[i] \in failing
    THEN [raised |-> TRUE, sinks |-> connected]
    ELSE InitializeSinksFrom(i + 1, enabled, failing, connected \cup {DestOrder[i]})

initialize_sinks(enabled, failing) == InitializeSinksFrom(1, enabled, failing, {})

\* run_continuous when a connect() fails: "await self.initialize_sinks()"
\* stands before the try statement, so the exception leaves run_continuous
\* without its finally clause; open is the set of connections left open
StartupConnectFails ==
    /\ pc = "init"
    /\ \E enabled \in SUBSET Destinations : \E failing \in SUBSET enabled :
          LET r == initialize_sinks(enabled, failing)
          IN  /\ r.raised
              /\ sinks' = r.sinks
              /\ call' = [op |-> "initialize_sinks", enabled |-> enabled,
                          failing |-> failing, open |-> r.sinks]
    /\ pc' = "failed"
    /\ UNCHANGED <<omVars, resume, dirVars, readerVars, pipeVars, sinkVars, histVars,
                   schemaVars, tableVars, retry, dlq_dir>>

NextConnect == Next \/ StartupConnectFails

SpecConnect == Init /\ [][NextConnect]_vars

NextSchema == Next \/ RegisterSchema

SpecSchema == Init /\ [][NextSchema]_vars

\* Spec with the scheduling asyncio guarantees: a started run_continuous reads
\* its resume point, and every coroutine that can run does run: the tasks of
\* asyncio.gather and the return of process_batch.  No fairness for
\* TailerYield and Shutdown: an event arrives when Cassandra writes one, a
\* signal when one is sent.
SpecLive ==
    /\ Spec
    /\ WF_vars(Startup)
    /\ \A d \in Destinations : WF_vars(WriteToSink(d)) /\ WF_vars(CommitOffset(d))
    /\ WF_vars(ProcessBatchReturn)

\* ------------------------------------------------------------------------
\* Properties
\* ------------------------------------------------------------------------
\* Actions of SpecSink: a caller makes the same call twice
\* ------------------------------------------------------------------------
\* the offsets the caller commits: those of partition 0 of the first segment
SinkCallerOffsets ==
    { o \in CallerOffsets :
        o.partition_id = 0 /\ o.commitlog_file = 1 /\ o.commitlog_position = 0 }

\* what a store or a sink holds for the key of an offset
StoredOffset(store, offset) ==
    [record |-> read_offset(store, offset.table_name, offset.keyspace,
                            offset.partition_id, offset.destination),
     records |-> Len(store)]

\* sink.write_batch(events) twice on one connection, then the caller commits
SinkWriteBatchTwice ==
    /\ \E events \in ContentBatches :
          LET r1 == PostgresSink_write_batch_rows(table, table, events)
              r2 == PostgresSink_write_batch_rows(table, r1.rows, events)
          IN  /\ table' = r2.rows
              /\ idem' = [op |-> "write_batch", once |-> r1.rows, twice |-> r2.rows,
                          count |-> r2.count,
                          changed |-> r1.rows /= table,
                          deleted |-> \E i \in 1..Len(events) :
                                         /\ events[i].event_type = "DELETE"
                                         /\ \E k \in RowKeys : /\ k[1] = events[i].key[1]
                                                               /\ table[k] /= Absent]
    /\ UNCHANGED <<omVars, startVars, dirVars, readerVars, pipeVars, sinkVars, histVars,
                   schemaVars, api_calls, call, retry, dlq_dir>>

\* sink.commit_offset(offset) twice with the same offset
SinkCommitOffsetTwice(d) ==
    /\ api_calls < MaxSinkCalls
    /\ \E offset \in SinkCallerOffsets :
          /\ offset.destination = d
          /\ LET s1 == commit_offset(d, sink[d], offset, FALSE).sink
                 s2 == commit_offset(d, s1, offset, FALSE).sink
             IN  /\ sink' = [sink EXCEPT ![d] = s2]
                 /\ idem' = [op |-> "sink.commit_offset",
                             once |-> s1.cdc_offsets, twice |-> s2.cdc_offsets,
                             changed |-> s1.cdc_offsets /= sink[d].cdc_offsets,
                             count |-> 0, deleted |-> FALSE]
    /\ api_calls' = api_calls + 1
    /\ UNCHANGED <<omVars, startVars, dirVars, readerVars, pipeVars, dlq, histVars,
                   schemaVars, table, call, retry, dlq_dir>>

\* OffsetManager.write_offset(offset) twice with the same offset
OMWriteOffsetTwice ==
    /\ api_calls < MaxSinkCalls
    /\ \E offset \in SinkCallerOffsets :
          LET r1 == write_offset(in_memory_offsets, offset)
              r2 == write_offset(r1.store, offset)
          IN  /\ in_memory_offsets' = r2.store
              /\ idem' = [op |-> "write_offset",
                          once |-> StoredOffset(r1.store, offset),
                          twice |-> StoredOffset(r2.store, offset),
                          changed |-> r1.store /= in_memory_offsets,
                          count |-> 0, deleted |-> FALSE]
    /\ api_calls' = api_calls + 1
    /\ UNCHANGED <<om_last, om_calls, startVars, dirVars, readerVars, pipeVars, sinkVars,
                   histVars, schemaVars, table, call, retry, dlq_dir>>

NextSink ==
    \/ \E d \in Destinations : SinkCommitOffsetTwice(d)
    \/ OMWriteOffsetTwice

InitSink == InitOM /\ InitDir /\ InitReaderVars /\ InitPipe /\ now_aware = FALSE

SpecSink == InitSink /\ [][NextSink]_vars

SpecTable == InitSink /\ [][SinkWriteBatchTwice]_vars

\* ------------------------------------------------------------------------
\* Actions of SpecBackoff: calls of calculate_backoff (sinks/retry.py)
\* ------------------------------------------------------------------------
\* Delays are counted in units of which a quarter is a whole number, so that
\* delay * 0.25 is exact.
RECURSIVE Power(_, _)
Power(x, n) == IF n = 0 THEN 1 ELSE x * Power(x, n - 1)

\* max_delay: Optional[float] = None
NoMaxDelay == -1

\* delay after "Cap at max_delay"
capped_delay(attempt, base_delay, multiplier, max_delay) ==
    LET delay == base_delay * Power(multiplier, attempt - 1)
    IN  IF max_delay /= NoMaxDelay THEN Min(delay, max_delay) ELSE delay

\* the values random.uniform(-jitter_range, jitter_range) can return
JitterDraws(delay) == (0 - delay \div 4)..(delay \div 4)

\* calculate_backoff(attempt, base_delay, multiplier, max_delay, jitter);
\* draw is what random.uniform returned
calculate_backoff(attempt, base_delay, multiplier, max_delay, jitter, draw) ==
    LET delay == capped_delay(attempt, base_delay, multiplier, max_delay)
        jittered == IF jitter THEN delay + draw ELSE delay
    IN  IF jittered > 0 THEN jittered ELSE 0

BaseDelays == {4, 8}
Multipliers == {1, 2, 3}           \* settings.py: backoff_multiplier ge=1.0
MaxDelays == {NoMaxDelay, 8, 16}

CalculateBackoffCall ==
    \E attempt \in 1..MaxAttempts, base_delay \in BaseDelays, multiplier \in Multipliers,
       max_delay \in MaxDelays, jitter \in BOOLEAN :
        \E draw \in JitterDraws(capped_delay(attempt, base_delay, multiplier, max_delay)) :
            /\ call' = [op |-> "calculate_backoff", attempt |-> attempt,
                        base_delay |-> base_delay, multiplier |-> multiplier,
                        max_delay |-> max_delay, jitter |-> jitter,
                        result |-> calculate_backoff(attempt, base_delay, multiplier,
                                                     max_delay, jitter, draw)]
            /\ UNCHANGED <<omVars, startVars, dirVars, readerVars, pipeVars, sinkVars,
                           histVars, schemaVars, tableVars, retry, dlq_dir>>

SpecBackoff == InitSink /\ [][CalculateBackoffCall]_vars

\* ------------------------------------------------------------------------
\* Actions of SpecMasking: calls of apply_masking (transform/masking.py)
\* ------------------------------------------------------------------------
\* MaskingRules.load_rules: the lists in use when masking-rules.yaml cannot be
\* read
pii_fields == {"email", "phone", "ssn", "credit_card"}
phi_fields == {"medical_record_number", "patient_id"}

\* the column names of the model, and the patterns that field_name.lower()
\* contains
FieldNames == {"name", "Email", "patient_id", "patient_id_email"}
PatternsIn(field_name) ==
    CASE field_name = "Email" -> {"email"}
      [] field_name = "patient_id" -> {"patient_id"}
      [] field_name = "patient_id_email" -> {"patient_id", "email"}
      [] OTHER -> {}

\* MaskingRules.classify_field: PHI patterns are tried first
classify_field(field_name) ==
    IF PatternsIn(field_name) \cap phi_fields /= {} THEN "PHI_TOKEN"
    ELSE IF PatternsIn(field_name) \cap pii_fields /= {} THEN "PII_HASH"
    ELSE "NONE"

\* hashlib.sha256(value).hexdigest()
mask_pii_field(value) ==
    IF value = None THEN None ELSE [sha256 |-> value]

\* hmac.new(secret_key, value, sha256).hexdigest()
mask_phi_field(value, secret_key) ==
    IF value = None THEN None ELSE [hmac |-> value, key |-> secret_key]

\* apply_masking(columns, secret_key): secret_key None becomes
\* "default-secret-key" at the first PHI column
apply_masking(columns, secret_key) ==
    LET key == IF secret_key = None THEN [key |-> "default-secret-key"] ELSE secret_key
    IN  [raised |-> FALSE,
         columns |-> [f \in DOMAIN columns |->
                        CASE classify_field(f) = "PII_HASH" -> mask_pii_field(columns[f])
                          [] classify_field(f) = "PHI_TOKEN" -> mask_phi_field(columns[f], key)
                          [] OTHER -> columns[f]]]

\* the values of a column and the secret keys a caller passes
MaskedValues == {None, [value |-> ""], [value |-> "v"]}
SecretKeys == {None, [key |-> "k1"], [key |-> "k2"]}

ApplyMaskingCall ==
    \E names \in SUBSET FieldNames : \E columns \in [names -> MaskedValues] :
        \E secret_key \in SecretKeys :
            /\ call' = [op |-> "apply_masking", columns |-> columns,
                        secret_key |-> secret_key,
                        result |-> apply_masking(columns, secret_key)]
            /\ UNCHANGED <<omVars, startVars, dirVars, readerVars, pipeVars, sinkVars,
                           histVars, schemaVars, tableVars, retry, dlq_dir>>

SpecMasking == InitSink /\ [][ApplyMaskingCall]_vars

\* ------------------------------------------------------------------------
\* Actions of SpecCoords: run_continuous over the triples of the tailer
\* ------------------------------------------------------------------------
\* commitlog_file.name of the segments, in the order of _get_commitlog_files;
\* the oldest segment bears the name that _write_to_sink passes to create_offset
SegmentName(i) ==
    IF i = 1 THEN PipelineCommitlogFile ELSE "CommitLog-7-1700000001.log"

\* the (event, file, position) triples of the k-th batch of run_continuous
YieldedBatch(k) == SubSeq(yielded, (k - 1) * BatchSize + 1, k * BatchSize)

\* the events of the triples: the loop body keeps event and drops file, position
BatchEvents(k) ==
    [j \in 1..BatchSize |->
        [id |-> (k - 1) * BatchSize + j,
         event_type |-> IF YieldedBatch(k)[j].event_type = "DELETE" THEN "DELETE" ELSE "INSERT",
         timestamp_micros |-> (k - 1) * BatchSize + j]]

\* _write_to_sink for one sink in which neither write_batch nor commit_offset
\* raises
write_and_commit(destination, s, events, now_is_aware) ==
    LET r == write_to_sink(destination, s, events, 0, now_is_aware)
    IN  IF r.task.state = "commit"
        THEN commit_offset(destination, r.sink, r.task.offset, FALSE).sink
        ELSE r.sink

\* the for loop of run_continuous has taken batch_size more triples from the
\* tailer: process_batch with every sink enabled
ProcessYieldedBatch ==
    LET k == Len(submitted) + 1
    IN  /\ Len(yielded) >= k * BatchSize
        /\ submitted' = Append(submitted, Ids(BatchEvents(k)))
        /\ sink' = [d \in Destinations |->
                       write_and_commit(d, sink[d], BatchEvents(k), now_aware)]
        /\ call' = [op |-> "process_batch",
                    file |-> SegmentName(YieldedBatch(k)[BatchSize].file),
                    position |-> YieldedBatch(k)[BatchSize].position]
        /\ UNCHANGED <<omVars, startVars, dirVars, readerVars, now_aware, next_event, batch,
                       shutdown_flag, final, task, dlq, outcomes, committed, offset_before,
                       schemaVars, tableVars, retry, dlq_dir>>

InitCoords == InitOM /\ InitDir /\ InitReaderVars /\ InitPipe /\ now_aware \in BOOLEAN

NextCoords == CreateSegment \/ AppendEntry \/ AppendRest \/ PollCycle \/ ProcessYieldedBatch

SpecCoords == InitCoords /\ [][NextCoords]_vars

\* ------------------------------------------------------------------------
\* Actions of SpecDLQ
\* ------------------------------------------------------------------------
\* a caller hands a failed event, each a new one, to the DLQ writer
DLQWriteEvent ==
    /\ dlq_dir.writes < MaxDLQWrites
    /\ \E destination \in Destinations,
          failure \in {"none", "open", "json.dumps", "write"} :
          LET event_id == dlq_dir.writes + 1
              r == DLQWriter_write_event(dlq_dir.files, dlq_dir.today, event_id,
                                         destination, "write_error", failure)
          IN  /\ dlq_dir' = [dlq_dir EXCEPT
                               !.files = r.files,
                               !.writes = @ + 1,
                               !.last = [op |-> "write_event", raised |-> r.raised,
                                         failure |-> failure, event_id |-> event_id,
                                         filename |-> <<destination, dlq_dir.today>>,
                                         before |-> dlq_dir.files]]
    /\ UNCHANGED <<omVars, startVars, dirVars, readerVars, pipeVars, sinkVars, histVars,
                   schemaVars, tableVars, call, retry>>

\* midnight UTC: datetime.now(timezone.utc) gives the next date
DayPasses ==
    /\ dlq_dir.today < MaxDays
    /\ dlq_dir' = [dlq_dir EXCEPT !.today = @ + 1]
    /\ UNCHANGED <<omVars, startVars, dirVars, readerVars, pipeVars, sinkVars, histVars,
                   schemaVars, tableVars, call, retry>>

NextDLQ == DLQWriteEvent \/ DayPasses

SpecDLQ == InitSink /\ [][NextDLQ]_vars

\* ------------------------------------------------------------------------
\* Actions of SpecRetry
\* ------------------------------------------------------------------------
\* retry_with_policy(func, policy) is called; the loop starts at attempt 1
RetryStart ==
    /\ retry.state = "idle"
    /\ \E n \in 1..MaxAttempts :
          retry' = [NoRetry EXCEPT !.state = "calling", !.max_attempts = n, !.attempt = 1]
    /\ UNCHANGED <<omVars, startVars, dirVars, readerVars, pipeVars, sinkVars, histVars,
                   schemaVars, tableVars, call, dlq_dir>>

\* await func(*args, **kwargs): it returns, or raises and the except branch runs
RetryInvoke ==
    /\ retry.state = "calling"
    /\ \/ retry' = [retry EXCEPT !.invocations = @ + 1, !.state = "returned"]
       \/ \E e \in Errors :
             retry' = [retry EXCEPT
                         !.invocations = @ + 1,
                         !.errors = Append(@, e),
                         !.state = IF after_error(e, retry.attempt, retry.max_attempts) = "raise"
                                   THEN "raised" ELSE "sleeping",
                         !.raised = IF after_error(e, retry.attempt, retry.max_attempts) = "raise"
                                    THEN e ELSE None]
    /\ UNCHANGED <<omVars, startVars, dirVars, readerVars, pipeVars, sinkVars, histVars,
                   schemaVars, tableVars, call, dlq_dir>>

\* await asyncio.sleep(delay) ends; the loop goes to the next attempt, or ends
\* and the last exception is raised
RetrySleep ==
    /\ retry.state = "sleeping"
    /\ retry' = IF retry.attempt + 1 > retry.max_attempts
                THEN [retry EXCEPT !.sleeps = @ + 1, !.state = "raised",
                                   !.raised = retry.errors[Len(retry.errors)]]
                ELSE [retry EXCEPT !.sleeps = @ + 1, !.attempt = @ + 1, !.state = "calling"]
    /\ UNCHANGED <<omVars, startVars, dirVars, readerVars, pipeVars, sinkVars, histVars,
                   schemaVars, tableVars, call, dlq_dir>>

NextRetry == RetryStart \/ RetryInvoke \/ RetrySleep

SpecRetry == InitSink /\ [][NextRetry]_vars

\* ------------------------------------------------------------------------
\* The schema functions called directly (models/schema.py, transform/validator.py)
\* ------------------------------------------------------------------------
\* the type names a SchemaChange is built with, in the cases CQL tools print
TypeNames ==
    {"int", "INT", "Int", "bigint", "BIGINT", "BigInt", "float", "FLOAT", "double",
     "DOUBLE", "decimal", "Decimal", "text", "TEXT", "varchar", "VarChar", "uuid"}

SchemaChanges ==
    [change_type : {"ADD_COLUMN", "DROP_COLUMN", "ALTER_TYPE"},
     column_name : {"age"},
     old_type : TypeNames \cup {NoType},
     new_type : TypeNames \cup {NoType}]

\* change.is_compatible() for a change a caller built
IsCompatibleCall ==
    /\ \E change \in SchemaChanges :
          call' = [op |-> "is_compatible", change |-> change,
                   result |-> SchemaChange_is_compatible(change)]
    /\ UNCHANGED <<omVars, startVars, dirVars, readerVars, pipeVars, sinkVars, histVars,
                   schemaVars, tableVars, retry, dlq_dir>>

SpecClassify == InitSink /\ [][IsCompatibleCall]_vars

\* the versions of a table a caller compares: the columns id, k, v, some of
\* them keys
KeyLists(names) ==
    {<<>>} \cup { <<n>> : n \in names }
    \cup { p \in names \X names : p[1] /= p[2] }
TableSchemas ==
    { s \in [columns : UNION { [dom -> {"int", "bigint"}] :
                                dom \in {{"id", "k"}, {"id", "k", "v"}} },
             partition_keys : KeyLists({"id", "k"}) \ {<<>>},
             clustering_keys : KeyLists({"k"})] :
        /\ \A i \in 1..Len(s.clustering_keys) : ~InSeq(s.clustering_keys[i], s.partition_keys)
        /\ s.columns["id"] = "int" }

\* validator.is_schema_compatible(old_schema, new_schema) for two versions
IsSchemaCompatibleCall ==
    /\ \E old_schema \in TableSchemas, new_schema \in TableSchemas :
          call' = [op |-> "is_schema_compatible",
                   old_schema |-> old_schema, new_schema |-> new_schema,
                   result |-> is_schema_compatible(old_schema, new_schema)]
    /\ UNCHANGED <<omVars, startVars, dirVars, readerVars, pipeVars, sinkVars, histVars,
                   schemaVars, tableVars, retry, dlq_dir>>

SpecCompare == InitSink /\ [][IsSchemaCompatibleCall]_vars

\* SchemaValidator.validate_event(event), registered being get_schema(...)
validate_event(registered, event) ==
    IF registered = None THEN "ok"
    ELSE IF \E i \in 1..Len(registered.partition_keys) :
               registered.partition_keys[i] \notin event.partition_key
    THEN "SchemaValidationError"
    ELSE "ok"

\* the events validated: the names of their partition-key and other columns
ValidatedEvents ==
    [partition_key : (SUBSET {"id", "k", "x"}) \ {{}},
     columns : SUBSET {"v", "w"}]

\* validator.validate_event(event) with a schema registered for the table or none
ValidateEventCall ==
    /\ \E registered \in TableSchemas \cup {None}, event \in ValidatedEvents :
          call' = [op |-> "validate_event", registered |-> registered, event |-> event,
                   result |-> validate_event(registered, event)]
    /\ UNCHANGED <<omVars, startVars, dirVars, readerVars, pipeVars, sinkVars, histVars,
                   schemaVars, tableVars, retry, dlq_dir>>

SpecValidate == InitSink /\ [][ValidateEventCall]_vars

\* ------------------------------------------------------------------------
\* (segment file, position) order, lexicographic
LexLeq(a, b) == a.file < b.file \/ (a.file = b.file /\ a.position <= b.position)
Coords(o) == [file |-> o.commitlog_file, position |-> o.commitlog_position]

\* event e is durable at destination d; the offset of batch n (its number in
\* submitted) was committed at d
RowsDurable(d, e) == Count(sink[d].rows, e) > 0
OffsetCommitted(d, n) == \E k \in 1..Len(committed[d]) : committed[d][k] = n

\* C1 (as claimed): once process_batch has returned for a batch, each of its
\* events is, at every enabled destination, either durably written exactly
\* once or in that destination's DLQ exactly once, and not both.
C1_ExactlyOnceOrDLQ ==
    \A n \in 1..Len(outcomes) : \A i \in 1..Len(submitted[n]) : \A d \in sinks :
        LET written == Count(sink[d].rows, submitted[n][i])
            dead == Count(dlq[d], submitted[n][i])
        IN  (written = 1 /\ dead = 0) \/ (written = 0 /\ dead = 1)

C6_FailedBatchInDLQ ==
    \A n \in 1..Len(outcomes) : \A d \in sinks :
        outcomes[n][d].write_raised =>
            \A i \in 1..Len(submitted[n]) : Count(dlq[d], submitted[n][i]) >= 1

C11_ShutdownTerminates == shutdown_flag ~> (pc = "stopped")

\* C12 (as claimed): when run_continuous has stopped, no event is left in the
\* batch, and if a batch was buffered when the shutdown was observed, every
\* sink was given it before the sinks were disconnected: write_batch was
\* called, and commit_offset was called where write_batch returned a count.
C12_FinalBatchAttemptedEverywhere ==
    pc = "stopped" =>
        /\ batch = <<>>
        /\ final =>
              \A d \in sinks :
                  LET t == outcomes[Len(outcomes)][d]
                  IN  /\ t.state \in {"done", "failed"}
                      /\ t.count > 0 => t.offset /= None

\* the batches handed to process_batch whose task at destination d has not
\* ended
InFlight(d) ==
    Cardinality({ n \in 1..Len(submitted) :
                    /\ n > Len(outcomes)
                    /\ ~(n = Len(submitted) /\ task[d].state \in {"done", "failed"}) })

\* C13: at every destination at most max_in_flight_batches batches are in
\* flight, and while a destination is at the cap no event is taken from the
\* tailer.
C13_InFlightCapped ==
    /\ [](\A d \in sinks : InFlight(d) <= max_in_flight_batches)
    /\ [][(\E d \in sinks : InFlight(d) >= max_in_flight_batches)
             => next_event' = next_event]_vars

\* C13 witness: a destination is at the cap, after an earlier batch was handled
C13_Witness ==
    /\ Len(outcomes) >= 1
    /\ \E d \in sinks : InFlight(d) = max_in_flight_batches

\* C14 (as claimed): while the active schema version of the table is
\* classified incompatible, no batch of its events is handed to a sink, no sink
\* writes rows and no offset moves.
C14_IncompatibleTablePaused ==
    [][(schema_incompatible /\ schema_incompatible') =>
          /\ submitted' = submitted
          /\ \A d \in sinks :
                /\ sink'[d].rows = sink[d].rows
                /\ Len(sink'[d].txn) <= Len(sink[d].txn)
                /\ sink'[d].cdc_offsets = sink[d].cdc_offsets]_vars

C17_NonMonotonicCommitIsFatal ==
    (om_last /= None /\ om_last.op = "commit_offset"
        /\ om_last.before /= None
        /\ om_last.offset.last_event_timestamp_micros <
               om_last.before.last_event_timestamp_micros) =>
        om_last.raised

\* C18: committing the same offset twice leaves what one commit leaves, in the
\* OffsetManager and in the offsets table of a destination: one record for the
\* key, with the events_replicated_count one commit gives it.
C18_OffsetCommitIdempotent ==
    idem.op \in {"write_offset", "sink.commit_offset"} => idem.twice = idem.once

\* C19: for every table and every batch of Insert, Update and Delete events,
\* PostgresSink.write_batch applied twice leaves the rows it leaves when
\* applied once.
C19_WriteBatchIdempotent ==
    idem.op = "write_batch" => idem.twice = idem.once

\* a batch that changed rows and deleted some was applied twice
C19_Witness ==
    /\ idem.op = "write_batch"
    /\ idem.changed
    /\ idem.deleted
    /\ \E k \in RowKeys : table[k] /= Absent

CaseVariants(name) ==
    CASE name = "int" -> {"int", "INT", "Int"}
      [] name = "bigint" -> {"bigint", "BIGINT", "BigInt"}
      [] name = "float" -> {"float", "FLOAT"}
      [] name = "double" -> {"double", "DOUBLE"}
      [] name = "decimal" -> {"decimal", "Decimal"}
      [] name = "text" -> {"text", "TEXT"}
      [] name = "varchar" -> {"varchar", "VarChar"}
Widenings ==
    {<<"int", "bigint">>, <<"float", "double">>, <<"decimal", "double">>,
     <<"text", "varchar">>, <<"varchar", "text">>}
C21_ClassifierMatrix ==
    call.op = "is_compatible" =>
        (call.result <=>
            \/ call.change.change_type \in {"ADD_COLUMN", "DROP_COLUMN"}
            \/ \E w \in Widenings : /\ call.change.old_type \in CaseVariants(w[1])
                                     /\ call.change.new_type \in CaseVariants(w[2]))

\* an upper-case widening was classified
C21_Witness ==
    /\ call.op = "is_compatible"
    /\ call.change.change_type = "ALTER_TYPE"
    /\ call.change.old_type = "INT"
    /\ call.change.new_type = "BigInt"
    /\ call.result

\* C22: two versions of a table whose partition-key lists differ, or whose
\* clustering-key lists differ (a key removed, added or moved), are classified
\* incompatible by is_schema_compatible.
C22_KeyChangeIncompatible ==
    (/\ call.op = "is_schema_compatible"
     /\ \/ call.old_schema.partition_keys /= call.new_schema.partition_keys
        \/ call.old_schema.clustering_keys /= call.new_schema.clustering_keys)
        => ~call.result

\* C23: validate_event accepts every event of a table with no registered
\* schema; with a schema registered it raises SchemaValidationError whenever a
\* column of the event's partition key is not in the schema's partition-key
\* list, and it raises only on a mismatch of the primary key, never because
\* of columns the schema does not have.
C23_ValidateEvent ==
    call.op = "validate_event" =>
        LET SchemaKeys == { call.registered.partition_keys[i] :
                              i \in 1..Len(call.registered.partition_keys) }
        IN  IF call.registered = None THEN call.result = "ok"
            ELSE /\ (call.event.partition_key \ SchemaKeys /= {}) =>
                        call.result = "SchemaValidationError"
                 /\ call.result = "SchemaValidationError" =>
                        call.event.partition_key /= SchemaKeys

\* C24: under a policy with max_attempts = N the operation is invoked at most
\* N times: once when the first call succeeds, k times when k-1 calls fail
\* with retryable errors and the k-th succeeds, and N times when every call
\* fails with a retryable error, the last exception then being raised.
AllRetryable == \A i \in 1..Len(retry.errors) : is_retryable_error(retry.errors[i])
C24_AtMostMaxAttempts ==
    /\ retry.invocations <= retry.max_attempts
    /\ (retry.state = "returned" /\ AllRetryable) =>
           retry.invocations = Len(retry.errors) + 1
    /\ (retry.state = "raised" /\ AllRetryable) =>
           /\ retry.invocations = retry.max_attempts
           /\ retry.raised = retry.errors[retry.max_attempts]

\* every one of three attempts failed with a retryable error
C24_Witness ==
    /\ retry.state = "raised"
    /\ AllRetryable
    /\ retry.max_attempts = 3
    /\ retry.invocations = 3
    /\ retry.sleeps = 2

\* C25: an error whose message contains authentication failed, permission
\* denied, syntax error, invalid or does not exist is never retried: the call
\* that raised it is the last one and the error is raised with no sleep; an
\* error matching no listed pattern is retried while attempts remain.
HasPermanentPattern(error) ==
    \E p \in error.message : LowerPhrase(p) \in permanent_patterns
HasNoListedPattern(error) ==
    \A p \in error.message : LowerPhrase(p) \notin permanent_patterns \cup retryable_patterns
C25_PermanentNotRetried ==
    \A i \in 1..Len(retry.errors) :
        /\ HasPermanentPattern(retry.errors[i]) =>
               /\ i = Len(retry.errors)
               /\ retry.state = "raised"
               /\ retry.sleeps = i - 1
        /\ (HasNoListedPattern(retry.errors[i]) /\ i < retry.max_attempts) =>
               ~(i = Len(retry.errors) /\ retry.state = "raised")

\* C26: processing an empty batch performs no write at any sink (no task is
\* started), commits no offset, changes no stored offset and raises nothing.
C26_EmptyBatchIsNoOp ==
    [][(call'.op = "process_batch" /\ call.op /= "process_batch") =>
          /\ task' = task
          /\ sink' = sink
          /\ committed' = committed
          /\ in_memory_offsets' = in_memory_offsets
          /\ outcomes' = outcomes
          /\ pc' = pc]_vars

\* an empty batch was processed by a pipeline holding a committed offset
C26_Witness ==
    /\ call.op = "process_batch"
    /\ call.events = <<>>
    /\ \E d \in sinks : sink[d].cdc_offsets /= None

\* C27: a failure while appending a record never leaves write_event as an
\* exception; a call that succeeds appends one line to the file of its
\* destination and of the current date and leaves every line already written,
\* there and in the other files, as it was.
C27_DLQWriteSwallowsAndAppends ==
    dlq_dir.last.op = "write_event" =>
        LET before == dlq_dir.last.before
            name == dlq_dir.last.filename
        IN  /\ ~dlq_dir.last.raised
            /\ \A n \in DLQFileNames \ {name} : dlq_dir.files[n] = before[n]
            /\ SubSeq(dlq_dir.files[name], 1, Len(before[name])) = before[name]
            /\ Len(dlq_dir.files[name]) =
                   Len(before[name]) + (IF dlq_dir.last.failure = "none" THEN 1 ELSE 0)

\* on the second date a line was appended to a file that already held one
C27_Witness ==
    /\ dlq_dir.last.op = "write_event"
    /\ dlq_dir.last.failure = "none"
    /\ Len(dlq_dir.files[dlq_dir.last.filename]) = 2
    /\ dlq_dir.today = 2

\* C28: a fault stays in its segment.  In a pass of read_events, a segment
\* that cannot be read yields nothing; in a segment that can, no entry at or
\* after an entry whose length prefix is 0 or above 100_000_000 is yielded;
\* and every other segment of the pass is read as if no fault had occurred.
RECURSIVE FirstBadPrefix(_, _)
FirstBadPrefix(data, position) ==
    LET size_bytes == FileRead(data, position, PrefixLen)
        entry_size == BigEndian(size_bytes)
    IN  IF Len(size_bytes) < PrefixLen THEN -1
        ELSE IF entry_size = 0 \/ entry_size > MaxEntrySize THEN position
        ELSE IF position + PrefixLen + entry_size > Len(data) THEN -1
        ELSE FirstBadPrefix(data, position + PrefixLen + entry_size)
PassFiles ==
    { i \in 1..Len(segments) :
        /\ i \notin processed_files
        /\ (last_file \in 1..Len(segments)) => i >= last_file }
PassStart(i) == IF i = last_file THEN last_position ELSE 0
YieldsOf(ys, i) == SelectSeq(ys, LAMBDA y : y.file = i)
C28_FaultStaysInSegment ==
    [][(call'.op = "read_events" /\ segments' = segments) =>
          LET yields == SubSeq(yielded', Len(yielded) + 1, Len(yielded'))
          IN  \A i \in PassFiles :
                 IF i \in call'.io_errors THEN YieldsOf(yields, i) = <<>>
                 ELSE /\ YieldsOf(yields, i) =
                            read_file_events(segments[i], i, TableName, Keyspace, PassStart(i))
                      /\ LET bad == FirstBadPrefix(segments[i], PassStart(i))
                         IN  bad >= 0 =>
                                \A k \in 1..Len(YieldsOf(yields, i)) :
                                    YieldsOf(yields, i)[k].position < bad]_vars

\* a segment holds an invalid length prefix followed by more bytes, and an
\* entry of a later segment has been yielded
C28_Witness ==
    /\ call.op = "read_events"
    /\ \E i \in 1..Len(segments), j \in 1..Len(segments) :
          /\ i < j
          /\ i \in processed_files
          /\ LET bad == FirstBadPrefix(segments[i], 0)
             IN  bad >= 0 /\ bad + PrefixLen < Len(segments[i])
          /\ YieldsOf(yielded, j) /= <<>>

\* C29: every well-framed entry that fails decoding is emitted on the DLQ
\* with error_type = parse_error, and the entries after it in the segment are
\* still read.
ParseErrorRecords ==
    { <<n, l>> \in DLQFileNames \X (1..MaxAppends) :
        /\ l <= Len(dlq_dir.files[n])
        /\ dlq_dir.files[n][l].error_type = "parse_error" }
C29_ParseErrorsOnDLQ ==
    [][\A i \in processed_files' \ processed_files :
          ParseErrors(segments[i], PassStart(i)) /= <<>> => ParseErrorRecords' /= {}]_vars

\* C30: without a shutdown, every event the tailer has yielded is eventually
\* submitted to the sinks, also when the buffered events stay fewer than
\* batch_size.
EventSubmitted(id) ==
    \E k \in 1..Len(submitted) : \E j \in 1..Len(submitted[k]) : submitted[k][j] = id
C30_BufferedEventsSubmitted ==
    ([]~shutdown_flag) => \A id \in 1..MaxEvents : (next_event > id) ~> EventSubmitted(id)

RECURSIVE EventsOfBatches(_)
EventsOfBatches(ks) ==
    IF ks = <<>> THEN 0 ELSE Len(submitted[Head(ks)]) + EventsOfBatches(Tail(ks))
C33_BackoffCappedAndMonotone ==
    call.op = "calculate_backoff" =>
        LET bound == IF call.max_delay = NoMaxDelay
                     THEN call.base_delay * Power(call.multiplier, call.attempt - 1)
                     ELSE Min(call.max_delay,
                              call.base_delay * Power(call.multiplier, call.attempt - 1))
        IN  /\ ~call.jitter => call.result = bound
            /\ ~call.jitter =>
                   call.result <= calculate_backoff(call.attempt + 1, call.base_delay,
                                      call.multiplier, call.max_delay, FALSE, 0)
            /\ call.max_delay /= NoMaxDelay => call.result <= call.max_delay

\* C34: masking a PHI-Token column needs the secret key: without one,
\* apply_masking reports a configuration error and produces no token for the
\* column.
C34_PhiTokenNeedsKey ==
    (/\ call.op = "apply_masking"
     /\ call.secret_key = None
     /\ \E f \in DOMAIN call.columns : classify_field(f) = "PHI_TOKEN") =>
        /\ call.result.raised
        /\ call.result.columns = None

\* C35: when write_batch has returned a count greater than zero at a sink,
\* _write_to_sink builds the offset and reaches that sink's commit_offset:
\* the write is never left without a commit attempt.
C35_WriteIsFollowedByCommit ==
    \A d \in Destinations :
        (task[d].state /= "none" /\ ~task[d].write_raised /\ task[d].count > 0) =>
            /\ task[d].state \in {"commit", "done", "failed"}
            /\ task[d].offset /= None

\* C36: over any number of poll cycles no commit-log entry, identified by
\* its segment file and byte position, is yielded more than once, also after a
\* cycle in which the read of a segment ended with an I/O error.
C36_NoEntryYieldedTwice ==
    \A j, k \in 1..Len(yielded) :
        (yielded[j].file = yielded[k].file /\ yielded[j].position = yielded[k].position)
            => j = k

\* C37: when the loop of run_continuous has been left, every event it took
\* from the tailer has been passed to process_batch, the event taken on the
\* iteration that saw the shutdown flag included.
C37_TakenEventsAreProcessed ==
    pc = "stopped" => \A id \in 1..(next_event - 1) : EventSubmitted(id)

\* C38: when the connect of a sink fails in initialize_sinks after other
\* sinks were connected, run_continuous returns the error with every
\* connection closed.
C38_NoConnectionLeftOpen ==
    (call.op = "initialize_sinks" /\ pc = "failed") => call.open = {}

\* C39: ClickHouseSink.write_batch writes nothing for DELETE events and
\* returns the number of the other events of the batch, and the pipeline
\* commits an offset to ClickHouse for the batch exactly when that number is
\* greater than zero; a batch of DELETE events only leaves the offset as it was.
NonDeletes(events) == SelectSeq(events, LAMBDA e : e.event_type /= "DELETE")
C39_ClickHouseSkipsDeletes ==
    LET t == task["CLICKHOUSE"]
        s == sink["CLICKHOUSE"]
    IN  (pc = "gather" /\ t.state \in {"commit", "done", "failed"} /\ ~t.write_raised) =>
            /\ t.count = Len(NonDeletes(batch))
            /\ \A i \in 1..Len(batch) :
                   Count(s.rows, batch[i].id) = IF batch[i].event_type = "DELETE" THEN 0 ELSE 1
            /\ (t.offset /= None) <=> (t.count > 0)
            /\ t.count = 0 => s.cdc_offsets = offset_before["CLICKHOUSE"]

\* C3: write_offset raises for an offset whose last_event_timestamp_micros is
\* lower than the stored one of the same key, and the rejected call leaves the
\* stored offset of that key (and the dict) as it was.
C3_RejectsLowerTimestamp ==
    (om_last /= None /\ om_last.op = "write_offset") =>
        LET existing == om_last.before
            lower == existing /= None /\
                     om_last.offset.last_event_timestamp_micros <
                         existing.last_event_timestamp_micros
        IN  /\ lower => om_last.raised
            /\ om_last.raised =>
                  /\ lower
                  /\ DictGet(in_memory_offsets, OffsetKey(om_last.offset)) = existing
                  /\ Len(in_memory_offsets) = om_last.size_before

\* C3 witness: a write_offset call was rejected
C3_Witness == om_last /= None /\ om_last.op = "write_offset" /\ om_last.raised

\* C4 (as claimed): an offset accepted after another one of the same key has
\* neither a lower timestamp nor a lower (commitlog_file, commitlog_position).
C4_CommittedOffsetsMonotonic ==
    (om_last /= None /\ om_last.op = "write_offset" /\ ~om_last.raised
        /\ om_last.before /= None) =>
        /\ om_last.before.last_event_timestamp_micros <=
               om_last.offset.last_event_timestamp_micros
        /\ LexLeq(Coords(om_last.before), Coords(om_last.offset))

\* C8 (as claimed): with two or more enabled destinations holding an offset,
\* the tailer is resumed from the least (file, position) among them.
C8_ResumesFromMinimum ==
    pc = "running" =>
        LET have == {d \in sinks : read_latest_offset(in_memory_offsets, d) /= None}
        IN  Cardinality(have) >= 2 =>
              /\ \E d \in have :
                    resume = Coords(read_latest_offset(in_memory_offsets, d))
              /\ \A d \in have :
                    LexLeq(resume, Coords(read_latest_offset(in_memory_offsets, d)))

\* C9: the position yielded with an entry is the byte offset of that entry's
\* length prefix, and reading a segment from a yielded position P yields
\* exactly what reading it from 0 yields from that entry on.
C9_ResumeAtPositionIsNoOp ==
    \A i \in 1..Len(segments) :
        LET all == read_file_events(segments[i], i, TableName, Keyspace, 0)
        IN  \A j \in 1..Len(all) :
                LET P == all[j].position
                    size == BigEndian(FileRead(segments[i], P, PrefixLen))
                    entry == parse_commitlog_entry(FileRead(segments[i], P + PrefixLen, size))
                IN  /\ Len(FileRead(segments[i], P, PrefixLen)) = PrefixLen
                    /\ entry.ok /\ entry.event_type = all[j].event_type
                    /\ read_file_events(segments[i], i, TableName, Keyspace, P)
                           = SubSeq(all, j, Len(all))

\* C9 witness: the tailer has yielded an entry that is not the first of its
\* segment, and that segment holds an entry after it
C9_Witness ==
    \E k \in 1..Len(yielded) :
        /\ yielded[k].position > 0
        /\ Len(read_file_events(segments[yielded[k].file], yielded[k].file,
                                TableName, Keyspace, yielded[k].position)) >= 2

\* C10 (as claimed): a short read only pauses the tailer, so once a poll cycle
\* has run, every complete entry that was on disk for it has been yielded.
C10_CompletedEntryIsYielded == unread_at_poll = {}

====
